---- MODULE Spec2Model ----
(***************************************************************************)
(* FinVerify: the verification-condition encoding and discharge engine.    *)
(*                                                                         *)
(* A checker object owns one solver session (a growing list of asserted    *)
(* constraints).  Every checking operation appends the constraints of its  *)
(* scenario and the negated property, asks the decision procedure whether  *)
(* the list is satisfiable, and maps the answer onto an outcome.           *)
(*                                                                         *)
(* Constraints are kept as syntax trees, exactly as the operations build   *)
(* them; satisfiability is decided by search over a finite window of the   *)
(* integers (MaxInt) widened by the constants of the query.                *)
(***************************************************************************)
EXTENDS Integers, Sequences, FiniteSets, TLC

(***************************************************************************)
(* Bounds of the model.                                                    *)
(***************************************************************************)
\* integer variables range over -MaxInt..MaxInt and the query's constants
MaxInt == 1
\* largest scenario amount / supply / balance handed to an operation
MaxParam == 2
\* a checking operation that does not reset is entered only while the
\* session holds at most this many assertions
MaxPending == 5
\* the mints explored keep BridgeChainB.minted at or below this value
MaxMinted == 4
\* the token calls explored keep every balance and the supply within
\* -MaxSupply..MaxSupply
MaxSupply == 2
\* longest list of results handed to generate_summary_report
MaxResults == 3

(***************************************************************************)
(* Expressions of the constraint language (z3 ASTs).                       *)
(***************************************************************************)
Node(o, n, v, a) == [op |-> o, name |-> n, val |-> v, args |-> a]

IntVar(n) == Node("Int", n, 0, <<>>)
BoolVar(n) == Node("Bool", n, 0, <<>>)
IntVal(v) == Node("IntVal", "", v, <<>>)
BoolVal(b) == Node("BoolVal", "", IF b THEN 1 ELSE 0, <<>>)
Add(a, b) == Node("+", "", 0, <<a, b>>)
Sub(a, b) == Node("-", "", 0, <<a, b>>)
Mul(a, b) == Node("*", "", 0, <<a, b>>)
If(c, a, b) == Node("If", "", 0, <<c, a, b>>)
Eq(a, b) == Node("==", "", 0, <<a, b>>)
Ne(a, b) == Node("!=", "", 0, <<a, b>>)
Ge(a, b) == Node(">=", "", 0, <<a, b>>)
Gt(a, b) == Node(">", "", 0, <<a, b>>)
Le(a, b) == Node("<=", "", 0, <<a, b>>)
Lt(a, b) == Node("<", "", 0, <<a, b>>)
Not(a) == Node("Not", "", 0, <<a>>)
And(s) == Node("And", "", 0, s)
Implies(a, b) == Node("Implies", "", 0, <<a, b>>)

\* Python's sum(xs): 0 + xs[0] + xs[1] + ...  (also z3's Sum)
RECURSIVE Sum(_)
Sum(xs) ==
    IF xs = <<>> THEN IntVal(0)
    ELSE Add(Sum(SubSeq(xs, 1, Len(xs) - 1)), xs[Len(xs)])

\* the value of an expression under an assignment of its variables
RECURSIVE Eval(_, _)
Eval(e, m) ==
    CASE e.op = "Int" -> m[e.name]
      [] e.op = "Bool" -> m[e.name]
      [] e.op = "IntVal" -> e.val
      [] e.op = "BoolVal" -> (e.val = 1)
      [] e.op = "+" -> Eval(e.args[1], m) + Eval(e.args[2], m)
      [] e.op = "-" -> Eval(e.args[1], m) - Eval(e.args[2], m)
      [] e.op = "*" -> Eval(e.args[1], m) * Eval(e.args[2], m)
      [] e.op = "If" -> IF Eval(e.args[1], m) THEN Eval(e.args[2], m)
                                              ELSE Eval(e.args[3], m)
      [] e.op = "==" -> (Eval(e.args[1], m) = Eval(e.args[2], m))
      [] e.op = "!=" -> (Eval(e.args[1], m) /= Eval(e.args[2], m))
      [] e.op = ">=" -> (Eval(e.args[1], m) >= Eval(e.args[2], m))
      [] e.op = ">" -> (Eval(e.args[1], m) > Eval(e.args[2], m))
      [] e.op = "<=" -> (Eval(e.args[1], m) <= Eval(e.args[2], m))
      [] e.op = "<" -> (Eval(e.args[1], m) < Eval(e.args[2], m))
      [] e.op = "Not" -> ~Eval(e.args[1], m)
      [] e.op = "And" -> \A i \in 1..Len(e.args) : Eval(e.args[i], m)
      [] e.op = "Implies" -> (Eval(e.args[1], m) => Eval(e.args[2], m))

\* the variables of an expression, each with its sort
RECURSIVE VarsOf(_)
VarsOf(e) ==
    IF e.op \in {"Int", "Bool"} THEN {[name |-> e.name, sort |-> e.op]}
    ELSE UNION {VarsOf(e.args[i]) : i \in 1..Len(e.args)}

\* the integer literals of an expression
RECURSIVE ConstsOf(_)
ConstsOf(e) ==
    IF e.op = "IntVal" THEN {e.val}
    ELSE UNION {ConstsOf(e.args[i]) : i \in 1..Len(e.args)}

(***************************************************************************)
(* The decision procedure: Solver.check() and Solver.model().              *)
(***************************************************************************)
Names(e) == {v.name : v \in VarsOf(e)}

\* candidate values of an integer variable in a query
Dom(cs) ==
    LET base == {0} \cup UNION {ConstsOf(cs[i]) : i \in 1..Len(cs)}
    IN  (-MaxInt..MaxInt) \cup {a + b : a \in base, b \in base}

\* the variables V ordered by rank
RECURSIVE Order(_, _)
Order(V, rank) ==
    IF V = {} THEN <<>>
    ELSE LET v == CHOOSE x \in V : \A y \in V : rank[x] <= rank[y]
         IN  <<v>> \o Order(V \ {v}, rank)

\* backtracking search: give the variables vs[k], vs[k+1], ... a value,
\* testing the assertions due[k] as soon as vs[k] has one
RECURSIVE Solve(_, _, _, _, _, _)
Solve(cs, vs, due, k, dom, m) ==
    IF k > Len(vs) THEN {m}
    ELSE LET vals == IF vs[k].sort = "Bool" THEN BOOLEAN ELSE dom
         IN  UNION { LET mm == (vs[k].name :> x) @@ m
                     IN  IF \A i \in due[k] : Eval(cs[i].f, mm)
                         THEN Solve(cs, vs, due, k + 1, dom, mm)
                         ELSE {} : x \in vals }

\* the assertions of a session, each with the names of its variables
Indexed(assertions) ==
    [i \in 1..Len(assertions) |->
        [f |-> assertions[i], vars |-> Names(assertions[i])]]

\* the variables linked to those of S through shared assertions
RECURSIVE Linked(_, _)
Linked(S, cs) ==
    LET T == S \cup UNION {cs[i].vars : i \in {j \in 1..Len(cs) :
                                                 cs[j].vars \cap S /= {}}}
    IN  IF T = S THEN S ELSE Linked(T, cs)

\* every assignment of the variables C, a set closed under Linked, that
\* satisfies the assertions over them; the variables are tried in the order
\* in which the assertions mention them
ModelsOver(C, all) ==
    LET cs == SelectSeq(all, LAMBDA c : c.vars /= {} /\ c.vars \subseteq C)
        V == UNION {VarsOf(cs[i].f) : i \in 1..Len(cs)}
        rank == [v \in V |-> CHOOSE i \in 1..Len(cs) :
                                /\ v.name \in cs[i].vars
                                /\ \A j \in 1..(i - 1) : v.name \notin cs[j].vars]
        vs == Order(V, rank)
        due == [k \in 1..Len(vs) |->
                  {i \in 1..Len(cs) :
                      /\ vs[k].name \in cs[i].vars
                      /\ cs[i].vars \subseteq {vs[j].name : j \in 1..k}}]
    IN  Solve(cs, vs, due, 1, Dom([i \in 1..Len(cs) |-> cs[i].f]), <<>>)

\* Solver.check() that runs to completion: is there an assignment
\* satisfying every assertion (independent groups of variables are
\* solved one by one)
Satisfiable(assertions) ==
    LET all == Indexed(assertions)
        names == UNION {all[i].vars : i \in 1..Len(all)}
        groups == {Linked({n}, all) : n \in names}
    IN  /\ \A i \in 1..Len(all) : all[i].vars = {} => Eval(all[i].f, <<>>)
        /\ \A C \in groups : ModelsOver(C, all) /= {}

\* Solver.model() of a satisfiable session, on the variables of shown and
\* those linked to them
Models(assertions, shown) ==
    LET all == Indexed(assertions)
    IN  ModelsOver(Linked(UNION {Names(shown[i]) : i \in 1..Len(shown)}, all),
                   all)

\* model.eval of each printed expression
Shown(shown, m) == [i \in 1..Len(shown) |-> Eval(shown[i], m)]

\* what the decision procedure finds for a session when it runs to
\* completion: its answer and, when that is sat, the values a model can give
\* the printed expressions
Solved(assertions, shown) ==
    LET sat == Satisfiable(assertions)
    IN  [answer |-> IF sat THEN "sat" ELSE "unsat",
         shown |-> IF sat
                   THEN {Shown(shown, m) : m \in Models(assertions, shown)}
                   ELSE {}]

\* the findings tabulated for an argument
Lookup(table, a) == (CHOOSE r \in table : r.arg = a).found

\* the answers of the decision procedure
Answers == {"sat", "unsat", "unknown"}

\* Solver.check(): sat, unsat, or unknown when the time budget runs out
Check(found) == {found.answer, "unknown"}

(***************************************************************************)
(* State.                                                                  *)
(***************************************************************************)
VARIABLES
    cls,         \* class of the object under study
    solver,      \* self.solver: the assertions of the session, in order
    violations,  \* PropertyChecker.violations
    results,     \* AdvancedPropertyChecker.results
    last,        \* the operation that ran last ("none" after construction)
    args,        \* its arguments
    answers,     \* the answers of the checks it made, in order
    result,      \* the value it returned
    report,      \* the counterexample values it printed from the model
    prev,        \* the operation that ran before it
    calls,       \* checking operations run so far on this object (up to 2)
    asked,       \* the answers after which Solver.model() was requested
    other,       \* self.solver of a second PropertyChecker instance
    other_result, \* the value the second instance's last operation returned
    locked,      \* BridgeChainA.locked
    nonces,      \* BridgeChainA.nonces
    changed,     \* how often a call with each nonce changed locked (up to 2)
    minted,      \* BridgeChainB.minted
    processed_msgs, \* BridgeChainB.processed
    mints,       \* how often a mint with each hash succeeded (up to 2)
    token_balances, \* ERC20Token.balances
    token_supply, \* ERC20Token.total_supply
    sites        \* the calls in progress at two call sites sharing one session

vars == <<cls, solver, violations, results, last, args, answers, result,
          report, prev, calls, asked, other, other_result, locked, nonces,
          changed, minted, processed_msgs, mints, token_balances, token_supply,
          sites>>

\* the fields of the second checker instance and of the chain A contract
instanceY == <<other, other_result>>
chainA == <<locked, nonces, changed>>
\* the fields of the chain B contract and of the token
chainB == <<minted, processed_msgs, mints>>
token == <<token_balances, token_supply>>

Classes == {"PropertyChecker", "AdvancedPropertyChecker",
            "VerificationConditionGenerator", "BridgeChainA",
            "BridgeChainB", "ERC20Token",
            "WeakestPreconditionCalculator", "property_checker"}

\* the objects whose callers lock on chain A: the chain A contract alone,
\* and the chain B contract with the chain A contract it mirrors
Bridges == {"BridgeChainA", "BridgeChainB"}

\* the nonces and amounts the callers of the bridge draw from
Nonces == 0..MaxParam
LockAmounts == (-1)..MaxParam
Hashes == {"hash1", "hash2"}
\* the addresses and amounts the callers of the token draw from
Accounts == {"owner", "alice"}
TokenAmounts == (-1)..MaxParam
InitialSupplies == 0..MaxSupply
\* two call sites that hold the same AdvancedPropertyChecker
Sites == {1, 2}
Idle == [op |-> "none", args |-> <<>>, stage |-> "idle", result |-> "none",
         mixed |-> FALSE]

Init ==
    /\ cls \in Classes
    /\ solver = <<>>
    /\ violations = <<>>
    /\ results = <<>>
    /\ last = "none"
    /\ args = <<>>
    /\ answers = <<>>
    /\ result = "none"
    /\ report = <<>>
    /\ prev = "none"
    /\ calls = 0
    /\ asked = <<>>
    /\ other = <<>>
    /\ other_result = "none"
    /\ locked = 0
    /\ nonces = {}
    /\ changed = [n \in Nonces |-> 0]
    /\ minted = 0
    /\ processed_msgs = {}
    /\ mints = [h \in Hashes |-> 0]
    /\ token_supply \in (IF cls = "ERC20Token" THEN InitialSupplies ELSE {0})
    /\ token_balances = IF cls = "ERC20Token"
                        THEN [a \in {"owner"} |-> token_supply]
                        ELSE <<>>
    /\ sites = [s \in Sites |-> Idle]

Bump(n) == IF n < 2 THEN n + 1 ELSE n

\* bookkeeping shared by every operation
Called(name, a) ==
    /\ last' = name
    /\ args' = a
    /\ prev' = last
    /\ calls' = Bump(calls)

\* a mapping that takes every answer other than unsat for a violation
Outcome_two_way(ans) ==
    CASE ans = "unsat" -> "VERIFIED"
      [] OTHER -> "VIOLATED"

\* the three-way mapping used by the checking operations
Outcome(ans) ==
    CASE ans = "sat" -> "VIOLATED"
      [] ans = "unsat" -> "VERIFIED"
      [] OTHER -> "UNKNOWN"

\* a tail that checks inside push()/pop(), dropping the negated property
Discharge_pop(query, found, ret) ==
    \E ans \in Check(found) :
      /\ solver' = SubSeq(query, 1, Len(query) - 1)
      /\ answers' = <<ans>>
      /\ result' = ret[ans]
      /\ IF ans = "sat"
         THEN /\ \E r \in found.shown : report' = r
              /\ asked' = <<ans>>
         ELSE /\ report' = <<>>
              /\ asked' = <<>>

\* the tail of a checking operation: check, read the model on sat, return
\* (ret gives the returned value for each answer)
Discharge(query, found, ret) ==
    \E ans \in Check(found) :
      /\ solver' = query
      /\ answers' = <<ans>>
      /\ result' = ret[ans]
      /\ IF ans = "sat"
         THEN /\ \E r \in found.shown : report' = r
              /\ asked' = <<ans>>
         ELSE /\ report' = <<>>
              /\ asked' = <<>>

(***************************************************************************)
(* PropertyChecker                                                         *)
(***************************************************************************)
\* reset that forgets self.solver.reset()
reset_keeps_solver ==
    /\ cls \in {"PropertyChecker", "AdvancedPropertyChecker"}
    /\ solver' = solver
    /\ violations' = IF cls = "PropertyChecker" THEN <<>> ELSE violations
    /\ last' = "reset"
    /\ args' = <<>>
    /\ prev' = last
    /\ answers' = <<>>
    /\ result' = "none"
    /\ report' = <<>>
    /\ asked' = <<>>
    /\ UNCHANGED <<cls, results, calls, instanceY, chainA, chainB, token, sites>>

reset ==
    /\ cls \in {"PropertyChecker", "AdvancedPropertyChecker"}
    /\ solver' = <<>>
    /\ violations' = IF cls = "PropertyChecker" THEN <<>> ELSE violations
    /\ last' = "reset"
    /\ args' = <<>>
    /\ prev' = last
    /\ answers' = <<>>
    /\ result' = "none"
    /\ report' = <<>>
    /\ asked' = <<>>
    /\ UNCHANGED <<cls, results, calls, instanceY, chainA, chainB, token, sites>>

BalanceName(i) ==
    <<"balance_0", "balance_1", "balance_2", "balance_3", "balance_4",
      "balance_5", "balance_6", "balance_7", "balance_8", "balance_9">>[i + 1]
TransferName(i) ==
    <<"transfer_0", "transfer_1", "transfer_2", "transfer_3", "transfer_4",
      "transfer_5", "transfer_6", "transfer_7", "transfer_8">>[i + 1]

\* balances = [Int(f'balance_{i}') for i in range(num_operations + 1)]
Balances(n) == [i \in 1..(n + 1) |-> IntVar(BalanceName(i - 1))]
TransferAmounts(n) == [i \in 1..n |-> IntVar(TransferName(i - 1))]

\* running_balances: balances[0], then each new_source
RECURSIVE RunningBalance(_)
RunningBalance(k) ==
    IF k = 1 THEN IntVar(BalanceName(0))
    ELSE Sub(RunningBalance(k - 1), IntVar(TransferName(k - 2)))
RunningBalances(n) == [k \in 1..(n + 1) |-> RunningBalance(k)]

\* the compared quantity
BalanceSum(n) == Sum(RunningBalances(n))

\* a transfer chain that lets the source overdraw its balance by one
Erc20Steps_overdraw(initial_supply, n) ==
    LET total_supply == IntVar("total_supply")
        balances == Balances(n)
        amounts == TransferAmounts(n)
        running == RunningBalances(n)
        loop == [j \in 1..(3 * n) |->
                   LET i == (j + 2) \div 3
                       new_dest == Add(balances[i + 1], amounts[i])
                   IN  CASE j % 3 = 1 -> Gt(amounts[i], IntVal(0))
                         [] j % 3 = 2 -> Ge(Add(running[i], IntVal(1)),
                                         amounts[i])
                         [] OTHER -> Ge(new_dest, IntVal(0))]
    IN  <<Eq(total_supply, IntVal(initial_supply)),
          Gt(total_supply, IntVal(0))>>
        \o [i \in 1..(n + 1) |-> Ge(balances[i], IntVal(0))]
        \o <<Eq(balances[1], total_supply)>>
        \o [i \in 1..n |-> Eq(balances[i + 1], IntVal(0))]
        \o loop

\* the constraints of the transfer chain
Erc20Steps(initial_supply, n) ==
    LET total_supply == IntVar("total_supply")
        balances == Balances(n)
        amounts == TransferAmounts(n)
        running == RunningBalances(n)
        loop == [j \in 1..(3 * n) |->
                   LET i == (j + 2) \div 3
                       new_dest == Add(balances[i + 1], amounts[i])
                   IN  CASE j % 3 = 1 -> Gt(amounts[i], IntVal(0))
                         [] j % 3 = 2 -> Ge(running[i], amounts[i])
                         [] OTHER -> Ge(new_dest, IntVal(0))]
    IN  <<Eq(total_supply, IntVal(initial_supply)),
          Gt(total_supply, IntVal(0))>>
        \o [i \in 1..(n + 1) |-> Ge(balances[i], IntVal(0))]
        \o <<Eq(balances[1], total_supply)>>
        \o [i \in 1..n |-> Eq(balances[i + 1], IntVal(0))]
        \o loop

Erc20Query(initial_supply, n) ==
    Erc20Steps(initial_supply, n)
        \o <<Ne(BalanceSum(n), IntVar("total_supply"))>>

Erc20Shown(n) ==
    <<IntVar("total_supply"), BalanceSum(n)>> \o RunningBalances(n)

Supplies == (-1)..MaxParam
NumOperations == {0, 1, 2, 3, 5, 8}

verify_erc20_conservation ==
    /\ cls = "PropertyChecker"
    /\ Len(solver) <= MaxPending
    /\ \E initial_supply \in Supplies, n \in NumOperations :
         /\ Called("verify_erc20_conservation", <<initial_supply, n>>)
         /\ LET query == solver \o Erc20Query(initial_supply, n)
            IN  Discharge(query, Solved(query, Erc20Shown(n)),
                      [a \in Answers |-> Outcome(a)])
    /\ UNCHANGED <<cls, violations, results, instanceY, chainA, chainB, token, sites>>

\* a lock that does not require its amount to be positive
BridgeSteps_any_amount(initial_amount) ==
    LET locked_A == IntVar("locked_A")
        minted_B == IntVar("minted_B")
        nonce == IntVar("nonce")
        processed == BoolVar("processed")
        amount1 == IntVar("amount1")
        locked_A_after_lock == IntVar("locked_A_after_lock")
        amount2 == IntVar("amount2")
        minted_B_after_mint == IntVar("minted_B_after_mint")
    IN  <<Ge(locked_A, IntVal(0)),
          Ge(minted_B, IntVal(0)),
          Eq(nonce, IntVal(0)),
          Eq(processed, BoolVal(FALSE)),
          Eq(amount1, IntVal(initial_amount)),
          Eq(locked_A_after_lock, Add(locked_A, amount1)),
          Eq(amount2, amount1),
          Eq(minted_B_after_mint, Add(minted_B, amount2))>>

\* the constraints of one lock on chain A and one mint on chain B
BridgeSteps(initial_amount) ==
    LET locked_A == IntVar("locked_A")
        minted_B == IntVar("minted_B")
        nonce == IntVar("nonce")
        processed == BoolVar("processed")
        amount1 == IntVar("amount1")
        locked_A_after_lock == IntVar("locked_A_after_lock")
        amount2 == IntVar("amount2")
        minted_B_after_mint == IntVar("minted_B_after_mint")
    IN  <<Ge(locked_A, IntVal(0)),
          Ge(minted_B, IntVal(0)),
          Eq(nonce, IntVal(0)),
          Eq(processed, BoolVal(FALSE)),
          Eq(amount1, IntVal(initial_amount)),
          Gt(amount1, IntVal(0)),
          Eq(locked_A_after_lock, Add(locked_A, amount1)),
          Eq(amount2, amount1),
          Eq(minted_B_after_mint, Add(minted_B, amount2))>>

BridgeQuery(initial_amount) ==
    BridgeSteps(initial_amount)
        \o <<Ne(IntVar("locked_A_after_lock"), IntVar("minted_B_after_mint"))>>

BridgeShown ==
    <<IntVar("locked_A_after_lock"), IntVar("minted_B_after_mint"),
      Sub(IntVar("locked_A_after_lock"), IntVar("minted_B_after_mint"))>>

Amounts == (-1)..MaxParam

\* the findings for each argument of a query built on a reset session
BridgeFound ==
    {[arg |-> a, found |-> Solved(BridgeQuery(a), BridgeShown)] : a \in Amounts}

verify_bridge_conservation ==
    /\ cls = "PropertyChecker"
    /\ \E initial_amount \in Amounts :
         /\ Called("verify_bridge_conservation", <<initial_amount>>)
         /\ Discharge(BridgeQuery(initial_amount),
                      Lookup(BridgeFound, initial_amount),
                      [a \in Answers |-> Outcome(a)])
    /\ violations' = <<>>
    /\ UNCHANGED <<cls, results, instanceY, chainA, chainB, token, sites>>

\* the query with the receiving balance capped at max_value
OverflowQuery_capped(max_value) ==
    LET balance1 == IntVar("balance1")
        balance2 == IntVar("balance2")
        transfer_amount == IntVar("transfer_amount")
        new_balance2 == Add(balance2, transfer_amount)
    IN  <<Ge(balance1, IntVal(0)),
          Ge(balance2, IntVal(0)),
          Gt(transfer_amount, IntVal(0)),
          Ge(balance1, transfer_amount),
          Le(new_balance2, IntVal(max_value)),
          Gt(new_balance2, IntVal(max_value))>>

OverflowQuery(max_value) ==
    LET balance1 == IntVar("balance1")
        balance2 == IntVar("balance2")
        transfer_amount == IntVar("transfer_amount")
        new_balance2 == Add(balance2, transfer_amount)
    IN  <<Ge(balance1, IntVal(0)),
          Ge(balance2, IntVal(0)),
          Gt(transfer_amount, IntVal(0)),
          Ge(balance1, transfer_amount),
          Gt(new_balance2, IntVal(max_value))>>

OverflowShown ==
    <<IntVar("balance2"), IntVar("transfer_amount"),
      Add(IntVar("balance2"), IntVar("transfer_amount"))>>

MaxValues == {2^8 - 1, 2^16 - 1, -1, MaxParam}

\* the findings for each argument of a query built on a reset session
OverflowFound ==
    {[arg |-> a, found |-> Solved(OverflowQuery(a), OverflowShown)] : a \in MaxValues}

verify_no_overflow ==
    /\ cls = "PropertyChecker"
    /\ \E max_value \in MaxValues :
         /\ Called("verify_no_overflow", <<max_value>>)
         /\ Discharge(OverflowQuery(max_value),
                      Lookup(OverflowFound, max_value),
                      [a \in Answers |-> Outcome(a)])
    /\ violations' = <<>>
    /\ UNCHANGED <<cls, results, instanceY, chainA, chainB, token, sites>>

\* amount = 1000
amount == 1000

\* the scenario with replay protection: the second mint adds nothing
BuggyQuery_protected ==
    LET locked_A == IntVar("locked_A")
        minted_B == IntVar("minted_B")
        locked_A_1 == IntVar("locked_A_1")
        minted_B_1 == IntVar("minted_B_1")
        minted_B_2 == IntVar("minted_B_2")
    IN  <<Eq(locked_A, IntVal(0)),
          Eq(minted_B, IntVal(0)),
          Eq(locked_A_1, Add(locked_A, IntVal(amount))),
          Eq(minted_B_1, Add(minted_B, IntVal(amount))),
          Eq(minted_B_2, minted_B_1),
          Ne(locked_A_1, minted_B_2)>>

BuggyQuery ==
    LET locked_A == IntVar("locked_A")
        minted_B == IntVar("minted_B")
        locked_A_1 == IntVar("locked_A_1")
        minted_B_1 == IntVar("minted_B_1")
        minted_B_2 == IntVar("minted_B_2")
    IN  <<Eq(locked_A, IntVal(0)),
          Eq(minted_B, IntVal(0)),
          Eq(locked_A_1, Add(locked_A, IntVal(amount))),
          Eq(minted_B_1, Add(minted_B, IntVal(amount))),
          Eq(minted_B_2, Add(minted_B_1, IntVal(amount))),
          Ne(locked_A_1, minted_B_2)>>

\* locked_A_1, minted_B_1, minted_B_2 and the attacker profit
BuggyShown ==
    <<IntVar("locked_A_1"), IntVar("minted_B_1"), IntVar("minted_B_2"),
      Sub(IntVar("minted_B_2"), IntVar("locked_A_1"))>>

\* verify_buggy_bridge has two branches only: sat, and everything else
BuggyOutcome(ans) == IF ans = "sat" THEN "VIOLATED" ELSE "VERIFIED"

BuggyFound == Solved(BuggyQuery, BuggyShown)

verify_buggy_bridge ==
    /\ cls = "PropertyChecker"
    /\ Called("verify_buggy_bridge", <<>>)
    /\ Discharge(BuggyQuery, BuggyFound,
                 [a \in Answers |-> BuggyOutcome(a)])
    /\ violations' = <<>>
    /\ UNCHANGED <<cls, results, instanceY, chainA, chainB, token, sites>>

(***************************************************************************)
(* property_checker: the module-level report                               *)
(***************************************************************************)
\* the lists of results (the names paired with them are only printed)
ResultLists ==
    UNION {[1..n -> {"VERIFIED", "VIOLATED", "UNKNOWN"}] : n \in 0..MaxResults}

\* sum(1 for _, r in results if r == wanted)
Count(rs, wanted) == Cardinality({i \in DOMAIN rs : rs[i] = wanted})

\* prints the counts and, from the count of violations alone, the verdict
generate_summary_report ==
    /\ cls = "property_checker"
    /\ \E rs \in ResultLists :
         /\ Called("generate_summary_report", rs)
         /\ LET total == Len(rs)
                verified == Count(rs, "VERIFIED")
                violated == Count(rs, "VIOLATED")
            IN  /\ report' = <<total, verified, violated>>
                /\ result' = IF violated > 0 THEN "WARNING" ELSE "SUCCESS"
    /\ UNCHANGED <<cls, solver, violations, results, answers, asked,
                   instanceY, chainA, chainB, token, sites>>

(***************************************************************************)
(* AdvancedPropertyChecker                                                 *)
(***************************************************************************)
\* a chain whose initial state is only required to be non-negative
MultihopQuery_unanchored(initial_amount) ==
    LET locked_A == IntVar("locked_A")
        minted_B == IntVar("minted_B")
        burned_B == IntVar("burned_B")
        minted_C == IntVar("minted_C")
        amount1 == IntVar("amount1")
        locked_A_1 == IntVar("locked_A_1")
        minted_B_1 == IntVar("minted_B_1")
        amount2 == IntVar("amount2")
        burned_B_1 == IntVar("burned_B_1")
        minted_C_1 == IntVar("minted_C_1")
    IN  <<Ge(locked_A, IntVal(0)),
          Eq(minted_B, IntVal(0)),
          Eq(burned_B, IntVal(0)),
          Ge(minted_C, IntVal(0)),
          Eq(amount1, IntVal(initial_amount)),
          Gt(amount1, IntVal(0)),
          Eq(locked_A_1, Add(locked_A, amount1)),
          Eq(minted_B_1, Add(minted_B, amount1)),
          Eq(amount2, amount1),
          Eq(burned_B_1, Add(burned_B, amount2)),
          Eq(minted_C_1, Add(minted_C, amount2)),
          Ne(locked_A_1, minted_C_1)>>


MultihopQuery(initial_amount) ==
    LET locked_A == IntVar("locked_A")
        minted_B == IntVar("minted_B")
        burned_B == IntVar("burned_B")
        minted_C == IntVar("minted_C")
        amount1 == IntVar("amount1")
        locked_A_1 == IntVar("locked_A_1")
        minted_B_1 == IntVar("minted_B_1")
        amount2 == IntVar("amount2")
        burned_B_1 == IntVar("burned_B_1")
        minted_C_1 == IntVar("minted_C_1")
    IN  <<Eq(locked_A, IntVal(0)),
          Eq(minted_B, IntVal(0)),
          Eq(burned_B, IntVal(0)),
          Eq(minted_C, IntVal(0)),
          Eq(amount1, IntVal(initial_amount)),
          Gt(amount1, IntVal(0)),
          Eq(locked_A_1, Add(locked_A, amount1)),
          Eq(minted_B_1, Add(minted_B, amount1)),
          Eq(amount2, amount1),
          Eq(burned_B_1, Add(burned_B, amount2)),
          Eq(minted_C_1, Add(minted_C, amount2)),
          Ne(locked_A_1, minted_C_1)>>

MultihopShown ==
    <<IntVar("locked_A_1"), IntVar("minted_B_1"), IntVar("burned_B_1"),
      IntVar("minted_C_1"), Sub(IntVar("locked_A_1"), IntVar("minted_C_1"))>>

\* the findings for each argument of a query built on a reset session
MultihopFound ==
    {[arg |-> a, found |-> Solved(MultihopQuery(a), MultihopShown)] : a \in Amounts}

verify_multihop_bridge ==
    /\ cls = "AdvancedPropertyChecker"
    /\ \E initial_amount \in Amounts :
         /\ Called("verify_multihop_bridge", <<initial_amount>>)
         /\ Discharge(MultihopQuery(initial_amount),
                      Lookup(MultihopFound, initial_amount),
                      [a \in Answers |-> Outcome(a)])
    /\ UNCHANGED <<cls, violations, results, instanceY, chainA, chainB, token, sites>>

\* a pool update that forgets the amount paid out
PoolQuery_no_payout(pool_balance, fee_bps) ==
    LET pool_before == IntVar("pool_before")
        pool_after == IntVar("pool_after")
        fees_collected == IntVar("fees_collected")
        amount_in == IntVar("amount_in")
        amount_out == IntVar("amount_out")
        fee == IntVar("fee")
    IN  <<Eq(pool_before, IntVal(pool_balance)),
          Gt(pool_before, IntVal(0)),
          Eq(fees_collected, IntVal(0)),
          Gt(amount_in, IntVal(0)),
          Le(amount_in, pool_before),
          Eq(Mul(fee, IntVal(10000)), Mul(amount_in, IntVal(fee_bps))),
          Ge(fee, IntVal(0)),
          Eq(amount_out, Sub(amount_in, fee)),
          Eq(pool_after, Add(pool_before, amount_in)),
          Ne(pool_after, Add(pool_before, fee))>>


PoolQuery(pool_balance, fee_bps) ==
    LET pool_before == IntVar("pool_before")
        pool_after == IntVar("pool_after")
        fees_collected == IntVar("fees_collected")
        amount_in == IntVar("amount_in")
        amount_out == IntVar("amount_out")
        fee == IntVar("fee")
    IN  <<Eq(pool_before, IntVal(pool_balance)),
          Gt(pool_before, IntVal(0)),
          Eq(fees_collected, IntVal(0)),
          Gt(amount_in, IntVal(0)),
          Le(amount_in, pool_before),
          Eq(Mul(fee, IntVal(10000)), Mul(amount_in, IntVal(fee_bps))),
          Ge(fee, IntVal(0)),
          Eq(amount_out, Sub(amount_in, fee)),
          Eq(pool_after, Sub(Add(pool_before, amount_in), amount_out)),
          Ne(pool_after, Add(pool_before, fee))>>

PoolShown ==
    <<IntVar("pool_before"), IntVar("amount_in"), IntVar("fee"),
      IntVar("amount_out"), IntVar("pool_after"),
      Add(IntVar("pool_before"), IntVar("fee"))>>

PoolBalances == (-1)..MaxParam
FeeBps == {0, 30, 5000, 10000}

\* the findings for each argument of a query built on a reset session
PoolFound ==
    {[arg |-> a, found |-> Solved(PoolQuery(a[1], a[2]), PoolShown)] : a \in PoolBalances \X FeeBps}

verify_liquidity_pool_with_fees ==
    /\ cls = "AdvancedPropertyChecker"
    /\ \E pool_balance \in PoolBalances, fee_bps \in FeeBps :
         /\ Called("verify_liquidity_pool_with_fees", <<pool_balance, fee_bps>>)
         /\ Discharge(PoolQuery(pool_balance, fee_bps),
                      Lookup(PoolFound, <<pool_balance, fee_bps>>),
                      [a \in Answers |-> Outcome(a)])
    /\ UNCHANGED <<cls, violations, results, instanceY, chainA, chainB, token, sites>>

\* withdrawable implied by the deadline, and not the converse
TimelockQuery_oneway(lock_period) ==
    LET lock_time == IntVar("lock_time")
        current_time == IntVar("current_time")
        unlock_time == IntVar("unlock_time")
        locked_amount == IntVar("locked_amount")
        withdrawable == BoolVar("withdrawable")
    IN  <<Gt(locked_amount, IntVal(0)),
          Ge(lock_time, IntVal(0)),
          Eq(unlock_time, Add(lock_time, IntVal(lock_period))),
          Ge(current_time, lock_time),
          Implies(Ge(current_time, unlock_time), withdrawable),
          Lt(current_time, unlock_time),
          Eq(withdrawable, BoolVal(TRUE))>>

TimelockQuery(lock_period) ==
    LET lock_time == IntVar("lock_time")
        current_time == IntVar("current_time")
        unlock_time == IntVar("unlock_time")
        locked_amount == IntVar("locked_amount")
        withdrawable == BoolVar("withdrawable")
    IN  <<Gt(locked_amount, IntVal(0)),
          Ge(lock_time, IntVal(0)),
          Eq(unlock_time, Add(lock_time, IntVal(lock_period))),
          Ge(current_time, lock_time),
          Eq(withdrawable, Ge(current_time, unlock_time)),
          Lt(current_time, unlock_time),
          Eq(withdrawable, BoolVal(TRUE))>>

TimelockShown ==
    <<IntVar("lock_time"), IntVar("unlock_time"), IntVar("current_time"),
      BoolVar("withdrawable")>>

LockPeriods == (-1)..MaxParam

\* the findings for each argument of a query built on a reset session
TimelockFound ==
    {[arg |-> a, found |-> Solved(TimelockQuery(a), TimelockShown)] : a \in LockPeriods}

verify_timelock_constraints ==
    /\ cls = "AdvancedPropertyChecker"
    /\ \E lock_period \in LockPeriods :
         /\ Called("verify_timelock_constraints", <<lock_period>>)
         /\ Discharge(TimelockQuery(lock_period),
                      Lookup(TimelockFound, lock_period),
                      [a \in Answers |-> Outcome(a)])
    /\ UNCHANGED <<cls, violations, results, instanceY, chainA, chainB, token, sites>>

ValidatorName(i) ==
    <<"validator_0_signed", "validator_1_signed", "validator_2_signed",
      "validator_3_signed", "validator_4_signed", "validator_5_signed",
      "validator_6_signed", "validator_7_signed", "validator_8_signed",
      "validator_9_signed">>[i + 1]

\* signatures = [Bool(f'validator_{i}_signed') for i in range(num_validators)]
Signatures(num_validators) ==
    [i \in 1..num_validators |-> BoolVar(ValidatorName(i - 1))]

\* sig_count = Sum([If(sig, 1, 0) for sig in signatures])
SigCount(num_validators) ==
    Sum([i \in 1..num_validators |->
            If(Signatures(num_validators)[i], IntVal(1), IntVal(0))])

\* approval as a one-directional implication
ApprovalLogic_oneway(num_validators, threshold) ==
    Implies(Ge(SigCount(num_validators), IntVal(threshold)),
            BoolVar("approved"))

\* approved == (sig_count >= threshold)
ApprovalLogic(num_validators, threshold) ==
    Eq(BoolVar("approved"), Ge(SigCount(num_validators), IntVal(threshold)))

BftQuery(num_validators, threshold) ==
    <<ApprovalLogic(num_validators, threshold),
      Lt(SigCount(num_validators), IntVal(threshold)),
      Eq(BoolVar("approved"), BoolVal(TRUE))>>

\* the count of signatures and the approval, as printed
BftShown(num_validators) ==
    <<SigCount(num_validators), BoolVar("approved")>>

\* the Ronin setting (9 validators, threshold 5) and every small setting
BftInputs ==
    {<<9, 5>>} \cup ((0..MaxParam) \X ((-1)..(MaxParam + 1)))

\* the findings for each argument of a query built on a reset session
BftFound ==
    {[arg |-> a, found |-> Solved(BftQuery(a[1], a[2]), BftShown(a[1]))] : a \in BftInputs}

verify_byzantine_fault_tolerance ==
    /\ cls = "AdvancedPropertyChecker"
    /\ \E in \in BftInputs :
         /\ Called("verify_byzantine_fault_tolerance", in)
         /\ Discharge(BftQuery(in[1], in[2]), Lookup(BftFound, in),
                      [a \in Answers |-> Outcome(a)])
    /\ UNCHANGED <<cls, violations, results, instanceY, chainA, chainB, token, sites>>

\* a protocol in which every payment of Alice is compensated
AtomicSwapQuery_refunded ==
    LET alice_paid == BoolVar("alice_paid")
        bob_paid == BoolVar("bob_paid")
        alice_received == BoolVar("alice_received")
        bob_received == BoolVar("bob_received")
        secret_revealed == BoolVar("secret_revealed")
        timelock_expired == BoolVar("timelock_expired")
    IN  <<Implies(And(<<alice_paid, secret_revealed>>), bob_received),
          Implies(alice_paid, alice_received),
          Implies(And(<<alice_paid, timelock_expired, Not(secret_revealed)>>),
                  alice_received),
          Implies(And(<<bob_paid, timelock_expired, Not(secret_revealed)>>),
                  bob_received),
          Eq(alice_paid, BoolVal(TRUE)),
          Eq(alice_received, BoolVal(FALSE)),
          Eq(bob_paid, BoolVal(FALSE)),
          Not(timelock_expired)>>


AtomicSwapQuery ==
    LET alice_paid == BoolVar("alice_paid")
        bob_paid == BoolVar("bob_paid")
        alice_received == BoolVar("alice_received")
        bob_received == BoolVar("bob_received")
        secret_revealed == BoolVar("secret_revealed")
        timelock_expired == BoolVar("timelock_expired")
    IN  <<Implies(And(<<alice_paid, secret_revealed>>), bob_received),
          Implies(And(<<bob_paid, secret_revealed>>), alice_received),
          Implies(And(<<alice_paid, timelock_expired, Not(secret_revealed)>>),
                  alice_received),
          Implies(And(<<bob_paid, timelock_expired, Not(secret_revealed)>>),
                  bob_received),
          Eq(alice_paid, BoolVal(TRUE)),
          Eq(alice_received, BoolVal(FALSE)),
          Eq(bob_paid, BoolVal(FALSE)),
          Not(timelock_expired)>>

AtomicSwapShown ==
    <<BoolVar("alice_paid"), BoolVar("alice_received"), BoolVar("bob_paid"),
      BoolVar("bob_received")>>

AtomicSwapFound == Solved(AtomicSwapQuery, AtomicSwapShown)

verify_atomic_swap_fairness ==
    /\ cls = "AdvancedPropertyChecker"
    /\ Called("verify_atomic_swap_fairness", <<>>)
    /\ Discharge(AtomicSwapQuery, AtomicSwapFound,
                      [a \in Answers |-> Outcome(a)])
    /\ UNCHANGED <<cls, violations, results, instanceY, chainA, chainB, token, sites>>

(***************************************************************************)
(* WeakestPreconditionCalculator                                           *)
(***************************************************************************)
\* substitute(postcondition, (var, expr))
RECURSIVE wp_assignment(_, _, _)
wp_assignment(var, expr, postcondition) ==
    IF postcondition.op \in {"Int", "Bool"}
    THEN IF postcondition.name = var THEN expr ELSE postcondition
    ELSE [postcondition EXCEPT
            !.args = [i \in DOMAIN postcondition.args |->
                        wp_assignment(var, expr, postcondition.args[i])]]

\* the triples handed to verify_hoare_triple; a command is an assignment
\* var := expr
Triples ==
    {[precondition |-> Gt(IntVar("x"), IntVal(0)),
      command |-> [var |-> "y", expr |-> Add(IntVar("x"), IntVal(1))],
      postcondition |-> Gt(IntVar("y"), IntVal(1))],
     [precondition |-> Gt(IntVar("x"), IntVal(0)),
      command |-> [var |-> "x", expr |-> Sub(IntVar("x"), IntVal(1))],
      postcondition |-> Gt(IntVar("x"), IntVal(0))],
     [precondition |-> Gt(IntVar("x"), IntVal(1)),
      command |-> [var |-> "x", expr |-> Sub(IntVar("x"), IntVal(1))],
      postcondition |-> Gt(IntVar("x"), IntVal(0))],
     [precondition |-> Gt(IntVar("x"), IntVal(0)),
      command |-> [var |-> "y", expr |-> IntVar("x")],
      postcondition |-> Ge(IntVar("x"), IntVal(0))],
     [precondition |-> Ge(IntVar("x"), IntVal(0)),
      command |-> [var |-> "y", expr |-> IntVal(0)],
      postcondition |-> Gt(IntVar("x"), IntVal(0))]}

\* "For now, simplified": the postcondition is returned as it is
calculate_wp(command, postcondition) == postcondition

\* the session after reset, add(precondition), add(Not(wp))
HoareQuery(t) ==
    <<t.precondition, Not(calculate_wp(t.command, t.postcondition))>>

\* the counterexample is the whole model: the variables of the query
HoareShown(t) ==
    SelectSeq(<<IntVar("x"), IntVar("y")>>,
              LAMBDA v : \E i \in 1..2 : v.name \in Names(HoareQuery(t)[i]))

HoareFound ==
    {[arg |-> t, found |-> Solved(HoareQuery(t), HoareShown(t))] : t \in Triples}

\* the model is read whenever the answer is not unsat, and Solver.model()
\* raises when it was unknown
verify_hoare_triple ==
    /\ cls = "WeakestPreconditionCalculator"
    /\ \E t \in Triples :
         /\ Called("verify_hoare_triple", t)
         /\ \E ans \in Check(Lookup(HoareFound, t)) :
              /\ solver' = HoareQuery(t)
              /\ answers' = <<ans>>
              /\ CASE ans = "unsat" ->
                        /\ result' = "True"
                        /\ report' = <<>>
                        /\ asked' = <<>>
                   [] ans = "sat" ->
                        /\ result' = "False"
                        /\ \E r \in Lookup(HoareFound, t).shown : report' = r
                        /\ asked' = <<ans>>
                   [] OTHER ->
                        /\ result' = "raise"
                        /\ report' = <<>>
                        /\ asked' = <<ans>>
    /\ UNCHANGED <<cls, violations, results, instanceY, chainA, chainB, token, sites>>

(***************************************************************************)
(* VerificationConditionGenerator                                          *)
(***************************************************************************)
\* a precondition that forgets balance_before >= amount
TransferPre_no_funds ==
    And(<<Gt(IntVar("amount"), IntVal(0))>>)

\* P = And(balance_before >= amount_var, amount_var > 0)
TransferPre ==
    And(<<Ge(IntVar("balance_before"), IntVar("amount")),
          Gt(IntVar("amount"), IntVal(0))>>)

\* VC = Implies(And(P, transfer), Q)
TransferVC ==
    LET transfer == Eq(IntVar("balance_after"),
                       Sub(IntVar("balance_before"), IntVar("amount")))
        Q == Ge(IntVar("balance_after"), IntVal(0))
    IN  Implies(And(<<TransferPre, transfer>>), Q)

\* the session after solver.reset() and solver.add(Not(VC))
TransferQuery == <<Not(TransferVC)>>

TransferShown ==
    <<IntVar("balance_before"), IntVar("amount"), IntVar("balance_after")>>

TransferFound == Solved(TransferQuery, TransferShown)

\* the arguments of the experiments and every small pair
PreconditionBalances == {100} \cup ((-1)..MaxParam)
TransferAmountArgs == {50} \cup ((-1)..MaxParam)

\* the arguments do not enter the constraints; the model is read whenever
\* the answer is not unsat, and Solver.model() raises when it was unknown
generate_vc_transfer ==
    /\ cls = "VerificationConditionGenerator"
    /\ \E precondition_balance \in PreconditionBalances,
          amount_arg \in TransferAmountArgs :
         Called("generate_vc_transfer", <<precondition_balance, amount_arg>>)
    /\ \E ans \in Check(TransferFound) :
         /\ solver' = TransferQuery
         /\ answers' = <<ans>>
         /\ CASE ans = "unsat" ->
                   /\ result' = "True"
                   /\ report' = <<>>
                   /\ asked' = <<>>
              [] ans = "sat" ->
                   /\ result' = "False"
                   /\ \E r \in TransferFound.shown : report' = r
                   /\ asked' = <<ans>>
              [] OTHER ->
                   /\ result' = "raise"
                   /\ report' = <<>>
                   /\ asked' = <<ans>>
    /\ UNCHANGED <<cls, violations, results, instanceY, chainA, chainB, token, sites>>

\* Inv = (locked == minted), Inv_prime = (locked_prime == minted_prime)
Inv == Eq(IntVar("locked"), IntVar("minted"))
Inv_prime == Eq(IntVar("locked_prime"), IntVar("minted_prime"))

\* VC1: base case
BaseCase ==
    <<Eq(IntVar("locked"), IntVal(0)),
      Eq(IntVar("minted"), IntVal(0)),
      Not(Inv)>>

\* VC2: inductive case, lock alone
LockCase ==
    <<Inv,
      Gt(IntVar("amount"), IntVal(0)),
      Eq(IntVar("locked_prime"), Add(IntVar("locked"), IntVar("amount"))),
      Eq(IntVar("minted_prime"), IntVar("minted")),
      Not(Inv_prime)>>

\* the paired obligation with the mint left out
PairedCase_no_mint ==
    <<Inv,
      Gt(IntVar("amount"), IntVal(0)),
      Eq(IntVar("locked_prime"), Add(IntVar("locked"), IntVar("amount"))),
      Eq(IntVar("minted_prime"), IntVar("minted")),
      Not(Inv_prime)>>

\* VC3: paired operations
PairedCase ==
    <<Inv,
      Gt(IntVar("amount"), IntVal(0)),
      Eq(IntVar("locked_prime"), Add(IntVar("locked"), IntVar("amount"))),
      Eq(IntVar("minted_prime"), Add(IntVar("minted"), IntVar("amount"))),
      Not(Inv_prime)>>

\* the values printed for the lock-alone counterexample: before, after and
\* difference; the amount of the model is kept with them (it is not printed)
LockShown ==
    <<IntVar("locked"), IntVar("minted"), IntVar("locked_prime"),
      IntVar("minted_prime"),
      Sub(IntVar("locked_prime"), IntVar("minted_prime")), IntVar("amount")>>

BaseFound == Solved(BaseCase, <<>>)
LockFound == Solved(LockCase, LockShown)
PairedFound == Solved(PairedCase, <<>>)

\* three obligations on one solver, reset before each; the model of the
\* second is read whenever its answer is not unsat, and Solver.model()
\* raises when the answer was unknown
generate_vc_bridge_invariant ==
    /\ cls = "VerificationConditionGenerator"
    /\ Called("generate_vc_bridge_invariant", <<>>)
    /\ \E a1 \in Check(BaseFound) :
         IF a1 /= "unsat"
         THEN /\ solver' = BaseCase
              /\ answers' = <<a1>>
              /\ result' = "False"
              /\ report' = <<>>
              /\ asked' = <<>>
         ELSE \E a2 \in Check(LockFound) :
                IF a2 = "unknown"
                THEN /\ solver' = LockCase
                     /\ answers' = <<a1, a2>>
                     /\ result' = "raise"
                     /\ report' = <<>>
                     /\ asked' = <<a2>>
                ELSE \E r \in (IF a2 = "sat" THEN LockFound.shown ELSE {<<>>}),
                        a3 \in Check(PairedFound) :
                       /\ solver' = PairedCase
                       /\ answers' = <<a1, a2, a3>>
                       /\ result' = IF a3 = "unsat" THEN "True" ELSE "False"
                       /\ report' = r
                       /\ asked' = IF a2 = "sat" THEN <<a2>> ELSE <<>>
    /\ UNCHANGED <<cls, violations, results, instanceY, chainA, chainB, token, sites>>

(***************************************************************************)
(* BridgeChainA                                                            *)
(***************************************************************************)
\* what a bridge call leaves alone
BridgeFrame ==
    UNCHANGED <<cls, solver, violations, results, answers, report, asked,
                instanceY, token, sites>>

\* a lock without the nonce check
lock_replayable ==
    /\ cls \in Bridges
    /\ \E amount_arg \in LockAmounts, nonce \in Nonces :
         /\ Called("lock", <<amount_arg, nonce>>)
         /\ IF amount_arg <= 0
            THEN result' = "False" /\ UNCHANGED chainA
            ELSE /\ locked' = locked + amount_arg
                 /\ nonces' = nonces \cup {nonce}
                 /\ changed' = [changed EXCEPT ![nonce] = Bump(@)]
                 /\ result' = "True"
    /\ UNCHANGED chainB
    /\ BridgeFrame

lock ==
    /\ cls \in Bridges
    /\ \E amount_arg \in LockAmounts, nonce \in Nonces :
         /\ Called("lock", <<amount_arg, nonce>>)
         /\ IF amount_arg <= 0
            THEN result' = "False" /\ UNCHANGED chainA
            ELSE IF nonce \in nonces
            THEN result' = "False" /\ UNCHANGED chainA
            ELSE /\ locked' = locked + amount_arg
                 /\ nonces' = nonces \cup {nonce}
                 /\ changed' = [changed EXCEPT ![nonce] = Bump(@)]
                 /\ result' = "True"
    /\ UNCHANGED chainB
    /\ BridgeFrame

unlock ==
    /\ cls = "BridgeChainA"
    /\ \E amount_arg \in LockAmounts, nonce \in Nonces :
         /\ Called("unlock", <<amount_arg, nonce>>)
         /\ IF amount_arg <= 0 \/ amount_arg > locked
            THEN result' = "False" /\ UNCHANGED chainA
            ELSE IF nonce \in nonces
            THEN result' = "False" /\ UNCHANGED chainA
            ELSE /\ locked' = locked - amount_arg
                 /\ nonces' = nonces \cup {nonce}
                 /\ changed' = [changed EXCEPT ![nonce] = Bump(@)]
                 /\ result' = "True"
    /\ UNCHANGED chainB
    /\ BridgeFrame

(***************************************************************************)
(* BridgeChainB                                                            *)
(***************************************************************************)
\* a mint that refuses a message hash it has processed, and records it
mint_protected ==
    /\ cls = "BridgeChainB"
    /\ \E amount_arg \in LockAmounts, message_hash \in Hashes :
         /\ minted + amount_arg <= MaxMinted
         /\ Called("mint", <<amount_arg, message_hash>>)
         /\ IF amount_arg <= 0 \/ message_hash \in processed_msgs
            THEN result' = "False" /\ UNCHANGED chainB
            ELSE /\ minted' = minted + amount_arg
                 /\ processed_msgs' = processed_msgs \cup {message_hash}
                 /\ mints' = [mints EXCEPT ![message_hash] = Bump(@)]
                 /\ result' = "True"
    /\ UNCHANGED chainA
    /\ BridgeFrame

\* processed is neither read nor written
mint ==
    /\ cls = "BridgeChainB"
    /\ \E amount_arg \in LockAmounts, message_hash \in Hashes :
         /\ minted + amount_arg <= MaxMinted
         /\ Called("mint", <<amount_arg, message_hash>>)
         /\ IF amount_arg <= 0
            THEN result' = "False" /\ UNCHANGED chainB
            ELSE /\ minted' = minted + amount_arg
                 /\ processed_msgs' = processed_msgs
                 /\ mints' = [mints EXCEPT ![message_hash] = Bump(@)]
                 /\ result' = "True"
    /\ UNCHANGED chainA
    /\ BridgeFrame

burn ==
    /\ cls = "BridgeChainB"
    /\ \E amount_arg \in LockAmounts :
         /\ Called("burn", <<amount_arg>>)
         /\ IF amount_arg <= 0 \/ amount_arg > minted
            THEN result' = "False" /\ UNCHANGED chainB
            ELSE /\ minted' = minted - amount_arg
                 /\ UNCHANGED <<processed_msgs, mints>>
                 /\ result' = "True"
    /\ UNCHANGED chainA
    /\ BridgeFrame

(***************************************************************************)
(* ERC20Token                                                              *)
(***************************************************************************)
\* self.balances.get(addr, 0)
Get(b, addr) == IF addr \in DOMAIN b THEN b[addr] ELSE 0

\* self.balances[addr] = v
Put(b, addr, v) ==
    [a \in DOMAIN b \cup {addr} |-> IF a = addr THEN v ELSE b[a]]

\* sum(self.balances.values())
RECURSIVE SumOver(_, _)
SumOver(b, S) ==
    IF S = {} THEN 0
    ELSE LET a == CHOOSE x \in S : TRUE
         IN  b[a] + SumOver(b, S \ {a})
SumOfBalances(b) == SumOver(b, DOMAIN b)

InRange(v) == v >= -MaxSupply /\ v <= MaxSupply

\* what a token call leaves alone
TokenFrame ==
    UNCHANGED <<cls, solver, violations, results, answers, report, asked,
                instanceY, chainA, chainB, sites>>

\* a transfer that computes both new balances from the old ones
transfer_stale ==
    /\ cls = "ERC20Token"
    /\ \E from_addr \in Accounts, to_addr \in Accounts,
          amount_arg \in TokenAmounts :
         /\ InRange(Get(token_balances, to_addr) + amount_arg)
         /\ Called("transfer", <<from_addr, to_addr, amount_arg>>)
         /\ IF Get(token_balances, from_addr) < amount_arg \/ amount_arg <= 0
            THEN result' = "False" /\ token_balances' = token_balances
            ELSE /\ token_balances' =
                      Put(Put(token_balances, from_addr,
                              Get(token_balances, from_addr) - amount_arg),
                          to_addr, Get(token_balances, to_addr) + amount_arg)
                 /\ result' = "True"
    /\ token_supply' = token_supply
    /\ TokenFrame

transfer ==
    /\ cls = "ERC20Token"
    /\ \E from_addr \in Accounts, to_addr \in Accounts,
          amount_arg \in TokenAmounts :
         /\ Called("transfer", <<from_addr, to_addr, amount_arg>>)
         /\ IF Get(token_balances, from_addr) < amount_arg
            THEN result' = "False" /\ token_balances' = token_balances
            ELSE IF amount_arg <= 0
            THEN result' = "False" /\ token_balances' = token_balances
            ELSE LET debited == Put(token_balances, from_addr,
                                    Get(token_balances, from_addr) - amount_arg)
                 IN  /\ token_balances' =
                           Put(debited, to_addr,
                               Get(debited, to_addr) + amount_arg)
                     /\ result' = "True"
    /\ token_supply' = token_supply
    /\ TokenFrame

\* a mint that forgets self.total_supply
token_mint_no_supply ==
    /\ cls = "ERC20Token"
    /\ \E to_addr \in Accounts, amount_arg \in TokenAmounts :
         /\ InRange(token_supply + amount_arg)
         /\ InRange(Get(token_balances, to_addr) + amount_arg)
         /\ Called("mint", <<to_addr, amount_arg>>)
         /\ token_supply' = token_supply
         /\ token_balances' =
               Put(token_balances, to_addr,
                   Get(token_balances, to_addr) + amount_arg)
         /\ result' = "True"
    /\ TokenFrame

\* ERC20Token.mint: no authorization and no test of the amount
token_mint ==
    /\ cls = "ERC20Token"
    /\ \E to_addr \in Accounts, amount_arg \in TokenAmounts :
         /\ InRange(token_supply + amount_arg)
         /\ InRange(Get(token_balances, to_addr) + amount_arg)
         /\ Called("mint", <<to_addr, amount_arg>>)
         /\ token_supply' = token_supply + amount_arg
         /\ token_balances' =
               Put(token_balances, to_addr,
                   Get(token_balances, to_addr) + amount_arg)
         /\ result' = "True"
    /\ TokenFrame

\* ERC20Token.burn: self.balances[from_addr] -= amount raises KeyError for
\* an address without an entry, before anything is written
token_burn ==
    /\ cls = "ERC20Token"
    /\ \E from_addr \in Accounts, amount_arg \in TokenAmounts :
         /\ InRange(token_supply - amount_arg)
         /\ InRange(Get(token_balances, from_addr) - amount_arg)
         /\ Called("burn", <<from_addr, amount_arg>>)
         /\ IF Get(token_balances, from_addr) < amount_arg
            THEN result' = "False" /\ UNCHANGED token
            ELSE IF from_addr \notin DOMAIN token_balances
            THEN result' = "raise" /\ UNCHANGED token
            ELSE /\ token_balances' =
                       Put(token_balances, from_addr,
                           token_balances[from_addr] - amount_arg)
                 /\ token_supply' = token_supply - amount_arg
                 /\ result' = "True"
    /\ TokenFrame

(***************************************************************************)
(* A second PropertyChecker instance, built by its own constructor.        *)
(***************************************************************************)
\* the fields and the history of the first instance
instanceX == <<solver, violations, results, last, args, answers, result,
               report, prev, calls, asked>>

other_reset ==
    /\ cls \in {"PropertyChecker", "AdvancedPropertyChecker"}
    /\ other' = <<>>
    /\ other_result' = "none"
    /\ UNCHANGED <<cls, instanceX, chainA, chainB, token, sites>>

\* a solver held by the class, shared by every instance
other_verify_buggy_bridge_shared ==
    /\ cls \in {"PropertyChecker", "AdvancedPropertyChecker"}
    /\ \E ans \in Check(BuggyFound) :
         /\ other' = BuggyQuery
         /\ solver' = BuggyQuery
         /\ other_result' = BuggyOutcome(ans)
    /\ UNCHANGED <<cls, violations, results, last, args, answers, result,
                   report, prev, calls, asked, chainA, chainB, token, sites>>

other_verify_buggy_bridge ==
    /\ cls \in {"PropertyChecker", "AdvancedPropertyChecker"}
    /\ \E ans \in Check(BuggyFound) :
         /\ other' = BuggyQuery
         /\ other_result' = BuggyOutcome(ans)
    /\ UNCHANGED <<cls, instanceX, chainA, chainB, token, sites>>

Next ==
    \/ reset
    \/ verify_erc20_conservation
    \/ verify_bridge_conservation
    \/ verify_no_overflow
    \/ verify_buggy_bridge
    \/ generate_summary_report
    \/ verify_multihop_bridge
    \/ verify_liquidity_pool_with_fees
    \/ verify_timelock_constraints
    \/ verify_byzantine_fault_tolerance
    \/ verify_atomic_swap_fairness
    \/ verify_hoare_triple
    \/ generate_vc_transfer
    \/ generate_vc_bridge_invariant
    \/ lock
    \/ unlock
    \/ mint
    \/ burn
    \/ transfer
    \/ token_mint
    \/ token_burn

Spec == Init /\ [][Next]_vars

\* the same object together with the second instance
NextTwo ==
    \/ reset
    \/ verify_erc20_conservation
    \/ verify_bridge_conservation
    \/ verify_no_overflow
    \/ verify_buggy_bridge
    \/ generate_summary_report
    \/ verify_multihop_bridge
    \/ verify_liquidity_pool_with_fees
    \/ verify_timelock_constraints
    \/ verify_byzantine_fault_tolerance
    \/ verify_atomic_swap_fairness
    \/ verify_hoare_triple
    \/ generate_vc_transfer
    \/ generate_vc_bridge_invariant
    \/ lock
    \/ unlock
    \/ mint
    \/ burn
    \/ transfer
    \/ token_mint
    \/ token_burn
    \/ other_reset
    \/ other_verify_buggy_bridge

SpecTwo == Init /\ [][NextTwo]_vars

(***************************************************************************)
(* Properties.                                                             *)
(***************************************************************************)
\* the checking operations of PropertyChecker and AdvancedPropertyChecker
CheckingOps ==
    {"verify_erc20_conservation", "verify_bridge_conservation",
     "verify_no_overflow", "verify_buggy_bridge", "verify_multihop_bridge",
     "verify_liquidity_pool_with_fees", "verify_timelock_constraints",
     "verify_byzantine_fault_tolerance", "verify_atomic_swap_fairness"}

\* the query an operation builds on a session without earlier assertions
FreshQuery(op, a) ==
    CASE op = "verify_erc20_conservation" -> Erc20Query(a[1], a[2])
      [] op = "verify_bridge_conservation" -> BridgeQuery(a[1])
      [] op = "verify_no_overflow" -> OverflowQuery(a[1])
      [] op = "verify_buggy_bridge" -> BuggyQuery
      [] op = "verify_multihop_bridge" -> MultihopQuery(a[1])
      [] op = "verify_liquidity_pool_with_fees" -> PoolQuery(a[1], a[2])
      [] op = "verify_timelock_constraints" -> TimelockQuery(a[1])
      [] op = "verify_byzantine_fault_tolerance" -> BftQuery(a[1], a[2])
      [] op = "verify_atomic_swap_fairness" -> AtomicSwapQuery

\* the value an operation returns when it runs alone on a fresh instance
\* and the decision procedure runs to completion
FreshOutcome(op, a) ==
    LET ans == IF Satisfiable(FreshQuery(op, a)) THEN "sat" ELSE "unsat"
    IN  IF op = "verify_buggy_bridge" THEN BuggyOutcome(ans) ELSE Outcome(ans)

\* the last operation's check ran to completion
Decided == answers /= <<>> /\ answers[1] /= "unknown"

\* C1: verify_erc20_conservation called on a fresh PropertyChecker with
\* initial_supply > 0 returns VERIFIED for every num_operations in
\* {0,1,2,3,5,8} (whenever the decision procedure answers)
C1_Erc20AlwaysVerified ==
    (/\ last = "verify_erc20_conservation"
     /\ prev = "none"
     /\ args[1] > 0
     /\ Decided) => result = "VERIFIED"

\* C2: verify_bridge_conservation returns VERIFIED for every
\* initial_amount > 0 (whenever the decision procedure answers)
C2_BridgeAlwaysVerified ==
    (/\ last = "verify_bridge_conservation"
     /\ args[1] > 0
     /\ Decided) => result = "VERIFIED"

\* C3: verify_buggy_bridge returns VIOLATED whenever the decision procedure
\* answers, and every model it can read gives locked_A_1 = 1000,
\* minted_B_2 = 2000 and the profit minted_B_2 - locked_A_1 = 1000
C3_ReplayAlwaysViolated ==
    (last = "verify_buggy_bridge" /\ Decided) =>
        /\ result = "VIOLATED"
        /\ report[1] = 1000
        /\ report[3] = 2000
        /\ report[4] = amount

C3_Witness ==
    /\ last = "verify_buggy_bridge"
    /\ result = "VIOLATED"
    /\ report[4] = 1000

\* C4: after reset() the session holds no assertion, and a checking
\* operation that runs right after reset() returns what it returns alone on
\* a fresh instance
C4_ResetIsolation ==
    /\ last = "reset" => solver = <<>>
    /\ (last \in CheckingOps /\ prev = "reset" /\ Decided) =>
           result = FreshOutcome(last, args)

\* A ran, then reset(), then B = verify_erc20_conservation found a violation
C4_Witness ==
    /\ last = "verify_erc20_conservation"
    /\ prev = "reset"
    /\ calls = 2
    /\ result = "VIOLATED"

\* C5: an answer that is neither sat nor unsat yields UNKNOWN, and VERIFIED
\* is returned only on unsat
C5_UnknownNeverVerified ==
    last \in CheckingOps =>
        /\ answers[1] \notin {"sat", "unsat"} => result = "UNKNOWN"
        /\ result = "VERIFIED" => answers[1] = "unsat"

\* C6: a checking operation that follows another one without a reset()
\* in between returns what it returns on a fresh instance
C6_SelfResetting ==
    (last \in CheckingOps /\ prev \in CheckingOps /\ Decided) =>
        result = FreshOutcome(last, args)

\* C7: in generate_vc_bridge_invariant the base case is unsat, the
\* lock-alone case is sat with locked' /= minted' and
\* locked' - minted' = amount in every model, and the paired case is unsat
\* (for each obligation whose check ran to completion)
C7_ThreeObligations ==
    last = "generate_vc_bridge_invariant" =>
        /\ answers[1] \in {"unsat", "unknown"}
        /\ (Len(answers) >= 2 /\ answers[2] /= "unknown") =>
               /\ answers[2] = "sat"
               /\ report[3] /= report[4]
               /\ report[5] = report[6]
        /\ Len(answers) >= 3 => answers[3] \in {"unsat", "unknown"}

C7_Witness ==
    /\ last = "generate_vc_bridge_invariant"
    /\ answers = <<"unsat", "sat", "unsat">>
    /\ report[3] - report[4] = report[6]

\* C8: a run of generate_vc_bridge_invariant whose inductive step fails
\* does not return the value of overall success
C8_FailedStepReported ==
    (/\ last = "generate_vc_bridge_invariant"
     /\ Len(answers) >= 2
     /\ answers[2] /= "unsat") => result /= "True"

\* C9: verify_no_overflow returns VIOLATED for every max_value (whenever
\* the decision procedure answers): the model has balance2 >= 0,
\* transfer_amount > 0 and balance2 + transfer_amount > max_value
C9_OverflowAlwaysViolated ==
    (last = "verify_no_overflow" /\ Decided) =>
        /\ result = "VIOLATED"
        /\ report[1] >= 0
        /\ report[2] > 0
        /\ report[3] = report[1] + report[2]
        /\ report[3] > args[1]

C9_Witness ==
    /\ last = "verify_no_overflow"
    /\ args[1] = 2^16 - 1
    /\ result = "VIOLATED"
    /\ report[3] > 2^16 - 1

\* C10: verify_byzantine_fault_tolerance returns VERIFIED for 9 validators
\* and threshold 5, and for every other setting (whenever the decision
\* procedure answers)
C10_ThresholdGating ==
    (last = "verify_byzantine_fault_tolerance" /\ Decided) =>
        result = "VERIFIED"

C10_Witness ==
    /\ last = "verify_byzantine_fault_tolerance"
    /\ args = <<9, 5>>
    /\ result = "VERIFIED"

\* C11: verify_timelock_constraints returns VERIFIED for every integer
\* lock_period, positive, zero or negative (whenever the decision procedure
\* answers): no assignment has current_time < unlock_time and withdrawable
C11_TimelockSound ==
    (last = "verify_timelock_constraints" /\ Decided) =>
        /\ result = "VERIFIED"
        /\ ~Satisfiable(solver)

\* a negative lock period was checked and found sound
C11_Witness ==
    /\ last = "verify_timelock_constraints"
    /\ args[1] < 0
    /\ result = "VERIFIED"

\* C12: Solver.model() is requested only after the answer sat: no operation
\* reads a model on the path taken when the answer is unsat or unknown
C12_ModelOnlyOnSat ==
    \A i \in DOMAIN asked : asked[i] = "sat"

\* C13: a checking operation of PropertyChecker or AdvancedPropertyChecker
\* returns one of VERIFIED, VIOLATED, UNKNOWN; it returns VIOLATED exactly
\* when the solver answered sat, VERIFIED when it answered unsat, and an
\* answer that is not unknown is sat exactly when the query the operation
\* submitted is satisfiable
C13_OutcomeMapping ==
    last \in CheckingOps =>
        /\ result \in {"VERIFIED", "VIOLATED", "UNKNOWN"}
        /\ result = "VIOLATED" <=> answers[1] = "sat"
        /\ answers[1] = "unsat" => result = "VERIFIED"
        /\ Decided => (answers[1] = "sat" <=> Satisfiable(solver))

\* both decided outcomes occur: here a satisfiable query gave VIOLATED
C13_Witness ==
    /\ last = "verify_bridge_conservation"
    /\ answers = <<"sat">>
    /\ result = "VIOLATED"

\* C14: generate_vc_transfer returns True for every pair of arguments
\* (whenever the decision procedure answers): the negation of the
\* verification condition is unsatisfiable
C14_TransferValid ==
    (last = "generate_vc_transfer" /\ Decided) =>
        /\ answers = <<"unsat">>
        /\ result = "True"
        /\ ~Satisfiable(solver)

C14_Witness ==
    /\ last = "generate_vc_transfer"
    /\ args = <<100, 50>>
    /\ result = "True"

\* the constraints of the last operation without its negated property
StepsOf(session) == SubSeq(session, 1, Len(session) - 1)

\* C15: verify_atomic_swap_fairness returns VIOLATED (whenever the decision
\* procedure answers): the HTLC rules admit alice_paid, not alice_received,
\* not bob_paid and not timelock_expired together, and every model read
\* shows Alice paying uncompensated
C15_SwapUnfair ==
    (last = "verify_atomic_swap_fairness" /\ Decided) =>
        /\ result = "VIOLATED"
        /\ report[1] = TRUE
        /\ report[2] = FALSE
        /\ report[3] = FALSE
        /\ Satisfiable(solver \o <<Eq(BoolVar("timelock_expired"),
                                      BoolVal(FALSE))>>)

C15_Witness ==
    /\ last = "verify_atomic_swap_fairness"
    /\ result = "VIOLATED"
    /\ report = <<TRUE, FALSE, FALSE, FALSE>>

\* C16: verify_multihop_bridge returns VERIFIED for every initial_amount > 0
\* (whenever the decision procedure answers): after both hops no assignment
\* has locked_A_1 /= minted_C_1
C16_MultihopConserved ==
    (last = "verify_multihop_bridge" /\ args[1] > 0 /\ Decided) =>
        /\ result = "VERIFIED"
        /\ ~Satisfiable(solver)

\* the two hops themselves are possible, so the proof is not vacuous
C16_Witness ==
    /\ last = "verify_multihop_bridge"
    /\ args[1] > 0
    /\ result = "VERIFIED"
    /\ Satisfiable(StepsOf(solver))

\* C17: verify_liquidity_pool_with_fees returns VERIFIED for every
\* pool_balance > 0 and fee_bps >= 0 (whenever the decision procedure
\* answers): no assignment has pool_after /= pool_before + fee
C17_PoolConserved ==
    (/\ last = "verify_liquidity_pool_with_fees"
     /\ args[1] > 0
     /\ args[2] >= 0
     /\ Decided) =>
        /\ result = "VERIFIED"
        /\ ~Satisfiable(solver)

\* a swap with a non-zero fee is possible, so the proof is not vacuous
C17_Witness ==
    /\ last = "verify_liquidity_pool_with_fees"
    /\ args[1] > 0
    /\ args[2] > 0
    /\ result = "VERIFIED"
    /\ Satisfiable(StepsOf(solver))

\* the checking operations that call self.reset() before they add anything
SelfResetting == CheckingOps \ {"verify_erc20_conservation"}

IsPrefix(s, t) == Len(s) <= Len(t) /\ SubSeq(t, 1, Len(s)) = s

\* C18: between resets the assertions of a checker session only grow: a
\* step that does not call reset() keeps every earlier assertion and adds
\* its own, and a step of an operation that calls reset() leaves exactly
\* the assertions that operation added after it
C18_OnlyResetRemoves ==
    [][(cls \in {"PropertyChecker", "AdvancedPropertyChecker"}
          /\ last' /= "reset"
          /\ solver' /= solver) =>
           IF last' \in SelfResetting
           THEN solver' = FreshQuery(last', args')
           ELSE /\ IsPrefix(solver, solver')
                /\ solver' = solver \o FreshQuery(last', args')]_vars

\* an operation ran on a session that kept the assertions of an earlier one
C18_Witness ==
    /\ last = "verify_erc20_conservation"
    /\ prev \in CheckingOps
    /\ Len(solver) > Len(FreshQuery(last, args))

\* C19: two checker instances share no mutable state: an operation on one
\* leaves the session and the results of the other unchanged, the session
\* an operation leaves is built from its own instance's session alone, and
\* its outcome is the one that session determines
C19_NoSharedState ==
    /\ [][/\ instanceY' /= instanceY => instanceX' = instanceX
          /\ instanceX' /= instanceX =>
               /\ instanceY' = instanceY
               /\ last' \in CheckingOps =>
                      solver' = (IF last' \in SelfResetting
                                 THEN <<>> ELSE solver)
                                \o FreshQuery(last', args')]_vars
    /\ [](last \in CheckingOps /\ Decided =>
            /\ answers[1] = "sat" <=> Satisfiable(solver)
            /\ result = IF last = "verify_buggy_bridge"
                        THEN BuggyOutcome(answers[1])
                        ELSE Outcome(answers[1]))
    /\ [](other_result /= "none" =>
            /\ other = BuggyQuery
            /\ other_result \in {BuggyOutcome(a) : a \in Check(BuggyFound)})

\* both instances hold a session, and the first kept its own accumulated
\* assertions while the second ran
C19_Witness ==
    /\ other = BuggyQuery
    /\ other_result = "VIOLATED"
    /\ last = "verify_erc20_conservation"
    /\ prev = "verify_erc20_conservation"
    /\ Len(solver) > Len(FreshQuery(last, args))

\* C20: on one BridgeChainA a lock or unlock whose nonce was accepted by an
\* earlier successful call returns False and leaves locked and nonces
\* unchanged; an accepted nonce stays accepted, every call that changes
\* locked records its nonce, and no nonce changes locked more than once
C20_ReplayProtectionA ==
    /\ [][cls = "BridgeChainA" =>
            /\ nonces \subseteq nonces'
            /\ args'[2] \in nonces =>
                   /\ result' = "False"
                   /\ locked' = locked
                   /\ nonces' = nonces
            /\ locked' /= locked =>
                   /\ result' = "True"
                   /\ args'[2] \notin nonces
                   /\ nonces' = nonces \cup {args'[2]}]_vars
    /\ [](\A n \in Nonces : changed[n] <= 1 /\ (changed[n] = 1 <=> n \in nonces))

\* a replayed nonce was refused after locked had been changed under it
C20_Witness ==
    /\ cls = "BridgeChainA"
    /\ last \in {"lock", "unlock"}
    /\ args[1] > 0 /\ args[1] <= locked
    /\ changed[args[2]] = 1
    /\ result = "False"
    /\ prev \in {"lock", "unlock"}

\* C21: BridgeChainB.mint with amount > 0 returns True and adds exactly
\* amount to minted on every call, also when the message hash was used by
\* an earlier successful mint, and processed is never updated
C21_MintReplayable ==
    /\ [][(cls = "BridgeChainB" /\ last' = "mint") =>
            /\ processed_msgs' = processed_msgs
            /\ args'[1] > 0 =>
                   /\ result' = "True"
                   /\ minted' = minted + args'[1]
            /\ args'[1] <= 0 =>
                   /\ result' = "False"
                   /\ minted' = minted]_vars
    /\ [](processed_msgs = {})

\* lock(a, n) on chain A and two successful mint(a, h) with the same hash on
\* chain B: minted - locked = a
C21_Witness ==
    /\ cls = "BridgeChainB"
    /\ last = "mint" /\ prev = "mint" /\ result = "True"
    /\ mints[args[2]] = 2
    /\ Cardinality(nonces) = 1
    /\ locked = args[1]
    /\ minted = 2 * args[1]
    /\ minted - locked = args[1]

\* C22: ERC20Token.transfer returns True exactly when amount > 0 and the
\* balance of from is at least amount; on True from loses amount and to
\* gains amount (net zero when from = to) and no other balance nor
\* total_supply changes; on False every balance and total_supply are
\* unchanged
C22_TransferFrame ==
    [][(cls = "ERC20Token" /\ last' = "transfer") =>
        LET from_addr == args'[1]
            to_addr == args'[2]
            amount_arg == args'[3]
        IN  /\ result' = "True" <=>
                   (amount_arg > 0
                      /\ Get(token_balances, from_addr) >= amount_arg)
            /\ token_supply' = token_supply
            /\ result' = "True" =>
                   \A a \in Accounts :
                      Get(token_balances', a) =
                          Get(token_balances, a)
                            - (IF a = from_addr THEN amount_arg ELSE 0)
                            + (IF a = to_addr THEN amount_arg ELSE 0)
            /\ result' /= "True" =>
                   /\ result' = "False"
                   /\ token_balances' = token_balances]_vars

\* a successful transfer of an account to itself
C22_Witness ==
    /\ cls = "ERC20Token"
    /\ last = "transfer"
    /\ args[1] = args[2]
    /\ result = "True"
    /\ token_balances[args[1]] >= args[3]

\* C27: after any sequence of ERC20Token transfer, mint and burn calls the
\* sum of all account balances equals total_supply
C27_SupplyIsSumOfBalances ==
    cls = "ERC20Token" => SumOfBalances(token_balances) = token_supply

\* a mint to a second account followed by a successful burn
C27_Witness ==
    /\ cls = "ERC20Token"
    /\ last = "burn" /\ prev = "mint" /\ result = "True"
    /\ args[2] /= 0
    /\ DOMAIN token_balances = Accounts
    /\ SumOfBalances(token_balances) = token_supply

\* new_dest = balances[i + 1] + amount, the credited balance of account i
NewDest(i) == Add(IntVar(BalanceName(i)), IntVar(TransferName(i - 1)))

\* the balance of every account after the chain: account 0 after its last
\* debit, and each destination after its credit
FinalBalances(n) ==
    <<RunningBalance(n + 1)>> \o [i \in 1..n |-> NewDest(i)]

\* C23: in verify_erc20_conservation the quantity compared with
\* total_supply is the sum of the final balances of all accounts: no
\* assignment of the transfer chain gives the two sums different values
C23_ComparesFinalBalances ==
    last = "verify_erc20_conservation" =>
        ~Satisfiable(Erc20Steps(args[1], args[2])
                       \o <<Ne(BalanceSum(args[2]),
                               Sum(FinalBalances(args[2])))>>)

\* every balance of the chain: the initial ones, the running source
\* balances and the credited destination balances
ChainBalances(n) ==
    {Balances(n)[i] : i \in 1..(n + 1)}
      \cup {RunningBalance(k) : k \in 1..(n + 1)}
      \cup {NewDest(i) : i \in 1..n}

\* for each argument pair: whether the transfer chain is possible, and
\* whether some assignment of it makes one of its balances negative
ChainFound ==
    {[arg |-> a,
      found |-> [possible |-> Satisfiable(Erc20Steps(a[1], a[2])),
                 negative |-> \E t \in ChainBalances(a[2]) :
                     Satisfiable(Erc20Steps(a[1], a[2])
                                   \o <<Lt(t, IntVal(0))>>)]] :
        a \in Supplies \X NumOperations}

\* C24: in every assignment that satisfies the step constraints of
\* verify_erc20_conservation every balance is >= 0 at every step
C24_BalancesNonNegative ==
    last = "verify_erc20_conservation" =>
        ~Lookup(ChainFound, args).negative

\* a chain with two transfers that is possible
C24_Witness ==
    /\ last = "verify_erc20_conservation"
    /\ args[2] = 2
    /\ Lookup(ChainFound, args).possible

\* C25: verify_hoare_triple(P, C, Q) returns True exactly when P implies
\* the weakest precondition of the assignment C for Q, that is Q with the
\* assigned expression substituted for the variable (whenever the decision
\* procedure answers)
C25_TripleByWeakestPrecondition ==
    (last = "verify_hoare_triple" /\ Decided) =>
        (result = "True" <=>
            ~Satisfiable(<<args.precondition,
                           Not(wp_assignment(args.command.var,
                                             args.command.expr,
                                             args.postcondition))>>))

\* C26: generate_summary_report announces that all properties are verified
\* only when every result of its list is VERIFIED, and its verified and
\* violated counts add up to the number of results
C26_SummaryNeverOverclaims ==
    last = "generate_summary_report" =>
        /\ result = "SUCCESS" => \A i \in DOMAIN args : args[i] = "VERIFIED"
        /\ report[2] + report[3] = report[1]

\* the operations whose scenario parameter is asserted positive
Parameterised ==
    {"verify_erc20_conservation", "verify_bridge_conservation",
     "verify_multihop_bridge", "verify_liquidity_pool_with_fees"}

\* C28: when the scenario parameter (initial_supply, initial_amount,
\* pool_balance) is <= 0 the step constraints alone are unsatisfiable and
\* the operation returns VERIFIED (whenever the decision procedure answers)
C28_VacuousOnOutOfRange ==
    (last \in Parameterised /\ args[1] <= 0 /\ Decided) =>
        /\ ~Satisfiable(StepsOf(FreshQuery(last, args)))
        /\ result = "VERIFIED"

\* a negative amount was reported as verified
C28_Witness ==
    /\ last = "verify_bridge_conservation"
    /\ args[1] < 0
    /\ result = "VERIFIED"

\* C29: the value returned by generate_vc_bridge_invariant depends only on
\* the base-case and paired obligations: it is False as soon as the base
\* case is not unsat, with no later obligation run, and it is True when the
\* base case and the paired case are unsat, whatever the answer to the
\* lock-only obligation
C29_BaseAndPairedDecide ==
    last = "generate_vc_bridge_invariant" =>
        /\ answers[1] /= "unsat" =>
               /\ result = "False"
               /\ Len(answers) = 1
        /\ (/\ answers[1] = "unsat"
            /\ PairedFound.answer = "unsat"
            /\ Len(answers) = 3 => answers[3] = "unsat") =>
               result = "True"


(***************************************************************************)
(* One AdvancedPropertyChecker session used from two call sites.  A call   *)
(* is two steps: its reset() and constraint additions, then its check.     *)
(***************************************************************************)
\* the calls made at the two sites
SharedCalls ==
    {[op |-> "verify_multihop_bridge", args |-> <<a>>] : a \in Amounts}
        \cup {[op |-> "verify_atomic_swap_fairness", args |-> <<>>]}
        \cup {[op |-> "verify_timelock_constraints", args |-> <<a>>] :
                a \in LockPeriods}

\* the other sites' calls that have added their constraints and not checked
Disturbed(s) ==
    [t \in Sites |->
        IF t /= s /\ sites[t].stage = "added"
        THEN [sites[t] EXCEPT !.mixed = TRUE]
        ELSE sites[t]]

SharedFrame ==
    UNCHANGED <<cls, violations, results, last, args, answers, result, report,
                prev, calls, asked, instanceY, chainA, chainB, token>>

\* the first half of a call that keeps the session of the call before it
add_constraints_no_reset(s) ==
    /\ cls = "AdvancedPropertyChecker"
    /\ sites[s].stage = "idle"
    /\ \E c \in SharedCalls :
        /\ solver' = solver \o FreshQuery(c.op, c.args)
        /\ sites' = [Disturbed(s) EXCEPT ![s] =
                        [op |-> c.op, args |-> c.args, stage |-> "added",
                         result |-> "none", mixed |-> FALSE]]
    /\ SharedFrame

\* self.reset() and the self.solver.add(...) calls of an operation
add_constraints(s) ==
    /\ cls = "AdvancedPropertyChecker"
    /\ sites[s].stage = "idle"
    /\ \E c \in SharedCalls :
        /\ solver' = FreshQuery(c.op, c.args)
        /\ sites' = [Disturbed(s) EXCEPT ![s] =
                        [op |-> c.op, args |-> c.args, stage |-> "added",
                         result |-> "none", mixed |-> FALSE]]
    /\ SharedFrame

\* self.solver.check() of the operation and the result it returns
check_and_return(s) ==
    /\ cls = "AdvancedPropertyChecker"
    /\ sites[s].stage = "added"
    /\ \E ans \in Check([answer |-> IF Satisfiable(solver) THEN "sat"
                                                             ELSE "unsat"]) :
        sites' = [sites EXCEPT ![s].stage = "idle",
                               ![s].result = Outcome(ans)]
    /\ UNCHANGED solver
    /\ SharedFrame

NextShared ==
    \/ \E s \in Sites : add_constraints(s)
    \/ \E s \in Sites : check_and_return(s)

InitShared == Init /\ cls = "AdvancedPropertyChecker"

SpecShared == InitShared /\ [][NextShared]_vars

\* C30: on a shared session a call returns an outcome other than its
\* sequential one only when another call's reset() and additions came
\* between its own additions and its check; calls made one after the other
\* always return their sequential outcome
C30_SharedSessionUnsafe ==
    \A s \in Sites :
        (/\ sites[s].result \notin {"none", "UNKNOWN"}
         /\ sites[s].stage = "idle"
         /\ sites[s].result /= FreshOutcome(sites[s].op, sites[s].args)) =>
            sites[s].mixed

\* verify_multihop_bridge with a positive amount returns VIOLATED after
\* another site's call replaced its constraints
C30_Witness ==
    \E s \in Sites :
        /\ sites[s].op = "verify_multihop_bridge"
        /\ sites[s].args[1] > 0
        /\ sites[s].stage = "idle"
        /\ sites[s].result = "VIOLATED"
        /\ sites[s].mixed
        /\ FreshOutcome(sites[s].op, sites[s].args) = "VERIFIED"

====
